---- MODULE Spec2Model ----
(***************************************************************************)
(* Undo/redo engine of archean-editor (src/src/action.rs, src/src/lib.rs): *)
(* ActionHistory (history, current), the Action trait with its two         *)
(* implementers SelectionAction and CombinedAction, and the ActionMessage  *)
(* queue drained by consume_actions_messages.                              *)
(*                                                                         *)
(* The World is modelled by the set of entities carrying the Selected      *)
(* component.  Indices of sub-actions are 0-based as in the source; TLA+   *)
(* sequences are 1-based, so sub-action i is subs[i + 1] and the entry     *)
(* self.history.get(k) is history[k + 1].                                  *)
(***************************************************************************)
EXTENDS Integers, Sequences, FiniteSets, TLC

VARIABLES world, history, current, messages, last, rt

vars == <<world, history, current, messages, last, rt>>

-----------------------------------------------------------------------------
(* Bounds of the model *)

\* longest history the model lets a push build
MaxLog == 2
\* longest CombinedAction drawn in the composite specification
MaxSub == 4
\* most calls of one request that return Failed (after the second failure
\* CombinedAction::redo and CombinedAction::undo have returned)
MaxFail == 2
\* most messages waiting in the queue
MaxQueue == 2
\* longest history the queue specification lets the drains build
MaxQueueLog == 2

\* the entities of the scene
Entities == {1, 2}

-----------------------------------------------------------------------------
(* ActionResult *)

Success == "Success"
Failed == "Failed"
ActionResult == {Failed, Success}

(* the warn! messages *)
WarnPush == "Could not push action"
WarnRedo == "Could not redo action"
WarnUndo == "Could not undo action"
WarnCombinedRedo == "Could not redo all actions in combined action. Unwinding partial state"
WarnCombinedUndo == "Could not undo all actions in combined action. Unwinding partial state"
WarnUnwindFailed == "Failed to unwind partial state"
WarnUnwound == "Successfully unwound partial state"

-----------------------------------------------------------------------------
(* Actions (Box<dyn Action>).  Every action value has the same three       *)
(* fields; ent is 0 for a CombinedAction and subs is empty for a leaf.     *)

\* SelectionAction(entity)
SelectionAction(e) == [kind |-> "sel", ent |-> e, subs |-> <<>>]

\* An implementer of the Action trait other than the two of the crate: its
\* redo and undo may each return Failed or Success on any call.  When a call
\* succeeds it toggles Selected on its entity (so that its undo inverts its
\* redo); when a call fails it leaves the World alone.
FallibleAction(e) == [kind |-> "fallible", ent |-> e, subs |-> <<>>]

\* CombinedAction(Vec<BoxedAction>)
CombinedAction(s) == [kind |-> "combined", ent |-> 0, subs |-> s]

\* the absence of an action (Option::None)
NoAction == [kind |-> "none", ent |-> 0, subs |-> <<>>]

Leaves == {SelectionAction(e) : e \in Entities} \cup {FallibleAction(e) : e \in Entities}

SeqsUpTo(S, n) == UNION {[1..k -> S] : k \in 0..n}

\* every CombinedAction of at most MaxSub leaves
Composites == {CombinedAction(s) : s \in SeqsUpTo(Leaves, MaxSub)}

\* an action made of SelectionActions only
RECURSIVE AllSel(_)
AllSel(a) ==
  IF a.kind = "combined"
    THEN \A j \in 1..Len(a.subs) : AllSel(a.subs[j])
    ELSE a.kind = "sel"

-----------------------------------------------------------------------------
(* Outcomes of the fallible calls.  An oracle is the set of the positions  *)
(* (1, 2, ... in call order within one request) of the leaf calls that     *)
(* return Failed, should the call at that position be a FallibleAction's.  *)

\* no more leaf calls than this are made for one action
CallBound(a) ==
  IF a.kind = "combined"
    THEN IF AllSel(a) THEN 0 ELSE 2 * Len(a.subs) - 1
    ELSE IF a.kind = "fallible" THEN 1 ELSE 0

Oracles(a) == {orc \in SUBSET (1..CallBound(a)) : Cardinality(orc) <= MaxFail}

-----------------------------------------------------------------------------
(* The execution context threaded through the calls of one request:        *)
(* the World, the leaf calls made so far and the diagnostics emitted.      *)

Ctx(w) == [world |-> w, calls |-> <<>>, diags |-> <<>>]

\* a warn! that writes nothing
WarnNothing(ctx, msg) == ctx

\* warn!(msg)
Warn(ctx, msg) == [ctx EXCEPT !.diags = Append(@, msg)]

\* a toggle that lost its remove branch
ToggleInsertOnly(w, e) == w \cup {e}

\* SelectionAction::redo on the World: insert Selected or remove it
Toggle(w, e) == IF e \in w THEN w \ {e} ELSE w \cup {e}

\* the result of the leaf call at position k
LeafResult(a, k, orc) ==
  IF a.kind = "sel" THEN Success
  ELSE IF k \in orc THEN Failed ELSE Success

\* one call of redo or undo on a leaf action, sub-action idx of its
\* CombinedAction (idx = -1: the action is not inside a CombinedAction).
\* SelectionAction::undo is self.redo, so both directions toggle.
LeafCall(a, idx, dir, ctx, orc) ==
  LET k == Len(ctx.calls) + 1
      r == LeafResult(a, k, orc)
  IN [ctx |-> [world |-> IF r = Success THEN Toggle(ctx.world, a.ent) ELSE ctx.world,
               calls |-> Append(ctx.calls, [dir |-> dir, idx |-> idx, res |-> r]),
               diags |-> ctx.diags],
      res |-> r]

-----------------------------------------------------------------------------
(* Iterator adaptors over the indices of the sub-actions *)

\* self.iter(): the indices 0 .. n-1 in order
Iter(n) == [j \in 1..n |-> j - 1]

\* .rev()
Rev(s) == [j \in 1..Len(s) |-> s[Len(s) + 1 - j]]

\* .take(k)
Take(s, k) == SubSeq(s, 1, IF k < Len(s) THEN k ELSE Len(s))

\* usize::saturating_sub
SaturatingSub(a, b) == IF a > b THEN a - b ELSE 0

\* self.iter().take(i.saturating_sub(1)).rev()
RedoUnwindOrder(n, i) == Rev(Take(Iter(n), SaturatingSub(i, 1)))

\* self.iter().rev().take(i.saturating_sub(1)).rev()
UndoUnwindOrder(n, i) == Rev(Take(Rev(Iter(n)), SaturatingSub(i, 1)))

RECURSIVE Unwind(_, _, _, _, _)

\* an inner loop that goes on after a compensating call has failed
UnwindContinues(subs, order, j, ctx, orc) ==
  IF j > Len(order)
    THEN [ctx |-> Warn(ctx, WarnUnwound), res |-> Failed]
    ELSE Unwind(subs, order, j + 1,
                LeafCall(subs[order[j] + 1], order[j], "undo", ctx, orc).ctx, orc)

\* the inner loop of CombinedAction::redo and of CombinedAction::undo: both
\* call action.undo on each sub-action of the unwind order, and return on
\* the first that fails
Unwind(subs, order, j, ctx, orc) ==
  IF j > Len(order)
    THEN [ctx |-> Warn(ctx, WarnUnwound), res |-> Failed]
    ELSE LET c == LeafCall(subs[order[j] + 1], order[j], "undo", ctx, orc)
         IN IF c.res = Failed
              THEN [ctx |-> Warn(c.ctx, WarnUnwindFailed), res |-> Failed]
              ELSE Unwind(subs, order, j + 1, c.ctx, orc)

\* CombinedAction::redo, from sub-action i on
RECURSIVE CombinedRedoFrom(_, _, _, _)
CombinedRedoFrom(subs, i, ctx, orc) ==
  IF i >= Len(subs)
    THEN [ctx |-> ctx, res |-> Success]
    ELSE LET c == LeafCall(subs[i + 1], i, "redo", ctx, orc)
         IN IF c.res = Failed
              THEN Unwind(subs, RedoUnwindOrder(Len(subs), i), 1,
                          Warn(c.ctx, WarnCombinedRedo), orc)
              ELSE CombinedRedoFrom(subs, i + 1, c.ctx, orc)

\* a loop that starts at the second sub-action
CombinedRedoSkipFirst(subs, ctx, orc) == CombinedRedoFrom(subs, 1, ctx, orc)

CombinedRedo(subs, ctx, orc) == CombinedRedoFrom(subs, 0, ctx, orc)

\* CombinedAction::undo, from sub-action i down
RECURSIVE CombinedUndoFrom(_, _, _, _)
CombinedUndoFrom(subs, i, ctx, orc) ==
  IF i < 0
    THEN [ctx |-> ctx, res |-> Success]
    ELSE LET c == LeafCall(subs[i + 1], i, "undo", ctx, orc)
         IN IF c.res = Failed
              THEN Unwind(subs, UndoUnwindOrder(Len(subs), i), 1,
                          Warn(c.ctx, WarnCombinedUndo), orc)
              ELSE CombinedUndoFrom(subs, i - 1, c.ctx, orc)

CombinedUndo(subs, ctx, orc) == CombinedUndoFrom(subs, Len(subs) - 1, ctx, orc)

\* Action::redo, dispatched on the implementer
ActionRedo(a, ctx, orc) ==
  IF a.kind = "combined"
    THEN CombinedRedo(a.subs, ctx, orc)
    ELSE LeafCall(a, -1, "redo", ctx, orc)

\* an undo that reports Success and does nothing
ActionUndoNothing(a, ctx, orc) == [ctx |-> ctx, res |-> Success]

\* Action::undo, dispatched on the implementer
ActionUndo(a, ctx, orc) ==
  IF a.kind = "combined"
    THEN CombinedUndo(a.subs, ctx, orc)
    ELSE LeafCall(a, -1, "undo", ctx, orc)

-----------------------------------------------------------------------------
(* ActionHistory.  A store is [history, current]; each method returns the  *)
(* store and the context it leaves, the action it applied and its result   *)
(* ("None": no action was applied).                                        *)

\* no drain: the redo tail is kept
DrainNothing(h, c) == h

\* a drain that starts one entry late: self.history.drain(self.current + 1..)
DrainFromAfter(h, c) == SubSeq(h, 1, IF c < Len(h) THEN c + 1 ELSE c)

\* self.history.drain(self.current..)
DrainFrom(h, c) == SubSeq(h, 1, c)

\* self.history.get(k)
Get(h, k) == IF k >= 0 /\ k < Len(h) THEN h[k + 1] ELSE NoAction

\* the entry at the cursor instead of the one before it
CheckedSub1Off(c) == IF c >= 1 THEN c ELSE -1

\* saturating_sub in place of checked_sub: 0 stays 0
CheckedSub1Saturating(c) == SaturatingSub(c, 1)

\* self.current.checked_sub(1), -1 standing for None
CheckedSub1(c) == IF c >= 1 THEN c - 1 ELSE -1

\* a cursor one past the end
PushCurrentOff(h) == Len(h) + 1

\* the cursor after a successful push: self.history.len()
PushCurrent(h) == Len(h)

\* a cursor that does not advance
RedoCurrentStuck(c) == c

\* the cursor after a successful redo
RedoCurrent(c) == c + 1

\* the cursor after a successful undo
UndoCurrent(c) == c - 1

\* a push that drains the redo tail before it knows the result
HistoryPushDrainFirst(h, c, a, ctx, orc) ==
  LET r == ActionRedo(a, ctx, orc)
      h1 == DrainFrom(h, c)
  IN IF r.res = Failed
       THEN [history |-> h1, current |-> c, ctx |-> Warn(r.ctx, WarnPush),
             arg |-> a, res |-> Failed]
       ELSE LET h2 == Append(h1, a)
            IN [history |-> h2, current |-> PushCurrent(h2), ctx |-> r.ctx,
                arg |-> a, res |-> Success]

\* ActionHistory::push
HistoryPush(h, c, a, ctx, orc) ==
  LET r == ActionRedo(a, ctx, orc)
  IN IF r.res = Failed
       THEN [history |-> h, current |-> c, ctx |-> Warn(r.ctx, WarnPush),
             arg |-> a, res |-> Failed]
       ELSE LET h2 == Append(DrainFrom(h, c), a)
            IN [history |-> h2, current |-> PushCurrent(h2), ctx |-> r.ctx,
                arg |-> a, res |-> Success]

\* ActionHistory::redo
HistoryRedo(h, c, ctx, orc) ==
  LET a == Get(h, c)
  IN IF a = NoAction
       THEN [history |-> h, current |-> c, ctx |-> ctx, arg |-> NoAction, res |-> "None"]
       ELSE LET r == ActionRedo(a, ctx, orc)
            IN IF r.res = Failed
                 THEN [history |-> h, current |-> c, ctx |-> Warn(r.ctx, WarnRedo),
                       arg |-> a, res |-> Failed]
                 ELSE [history |-> h, current |-> RedoCurrent(c), ctx |-> r.ctx,
                       arg |-> a, res |-> Success]

\* an undo that takes the undone entry out of the history
HistoryUndoPops(h, c, ctx, orc) ==
  LET a == Get(h, CheckedSub1(c))
  IN IF a = NoAction
       THEN [history |-> h, current |-> c, ctx |-> ctx, arg |-> NoAction, res |-> "None"]
       ELSE LET r == ActionUndo(a, ctx, orc)
            IN IF r.res = Failed
                 THEN [history |-> h, current |-> c, ctx |-> Warn(r.ctx, WarnUndo),
                       arg |-> a, res |-> Failed]
                 ELSE [history |-> SubSeq(h, 1, c - 1) \o SubSeq(h, c + 1, Len(h)),
                       current |-> UndoCurrent(c), ctx |-> r.ctx,
                       arg |-> a, res |-> Success]

\* ActionHistory::undo
HistoryUndo(h, c, ctx, orc) ==
  LET a == Get(h, CheckedSub1(c))
  IN IF a = NoAction
       THEN [history |-> h, current |-> c, ctx |-> ctx, arg |-> NoAction, res |-> "None"]
       ELSE LET r == ActionUndo(a, ctx, orc)
            IN IF r.res = Failed
                 THEN [history |-> h, current |-> c, ctx |-> Warn(r.ctx, WarnUndo),
                       arg |-> a, res |-> Failed]
                 ELSE [history |-> h, current |-> UndoCurrent(c), ctx |-> r.ctx,
                       arg |-> a, res |-> Success]

\* a clear that forgets the cursor
HistoryClearKeepCursor(h, c) == [history |-> <<>>, current |-> c]

\* ActionHistory::clear
HistoryClear(h, c) == [history |-> <<>>, current |-> 0]

-----------------------------------------------------------------------------
(* ActionMessage *)

MsgPush(a) == [type |-> "Push", action |-> a]
MsgRedo == [type |-> "Redo", action |-> NoAction]
MsgUndo == [type |-> "Undo", action |-> NoAction]

\* the record of the last call made on the store: the method, the action it
\* applied, the result, the leaf calls and the diagnostics, the cursor, the
\* length of the history and the World before the call (from), and the
\* method and result of the call before it (prev)
CallRecord(op, arg, res, ctx, h, c, w, before) ==
  [op |-> op, arg |-> arg, res |-> res, calls |-> ctx.calls, diags |-> ctx.diags,
   from |-> [current |-> c, len |-> Len(h), world |-> w],
   prev |-> [op |-> before.op, res |-> before.res]]

NoCall(op, h, c, w, before) == CallRecord(op, NoAction, "None", Ctx({}), h, c, w, before)

FirstCall ==
  [op |-> "init", arg |-> NoAction, res |-> "None", calls |-> <<>>, diags |-> <<>>,
   from |-> [current |-> 0, len |-> 0, world |-> {}],
   prev |-> [op |-> "init", res |-> "None"]]

\* bookkeeping of a push; undo; redo sequence on an action made of
\* SelectionActions: phase 1 after the push (with the state it left),
\* phase 2 after the undo that follows it, phase 3 after the redo that
\* follows that
RtIdle == [phase |-> 0, world |-> {}, history |-> <<>>, current |-> 0]

RtNext(r, type, out) ==
  IF type = "Push" /\ out.res = Success /\ AllSel(out.arg)
    THEN [phase |-> 1, world |-> out.ctx.world, history |-> out.history,
          current |-> out.current]
  ELSE IF type = "Undo" /\ r.phase = 1 THEN [r EXCEPT !.phase = 2]
  ELSE IF type = "Redo" /\ r.phase = 2 THEN [r EXCEPT !.phase = 3]
  ELSE RtIdle

\* one arm of the match in consume_actions_messages
Dispatch(h, c, w, msg, orc) ==
  IF msg.type = "Push" THEN HistoryPush(h, c, msg.action, Ctx(w), orc)
  ELSE IF msg.type = "Redo" THEN HistoryRedo(h, c, Ctx(w), orc)
  ELSE HistoryUndo(h, c, Ctx(w), orc)

\* the action a message applies, to draw the outcomes of its calls
Target(h, c, msg) ==
  IF msg.type = "Push" THEN msg.action
  ELSE IF msg.type = "Redo" THEN Get(h, c)
  ELSE Get(h, CheckedSub1(c))

-----------------------------------------------------------------------------
(* The state machine *)

\* the actions pushed on the history in the history specification
PushPool ==
  { SelectionAction(1),
    FallibleAction(2),
    CombinedAction(<<SelectionAction(1), SelectionAction(2)>>),
    CombinedAction(<<SelectionAction(1), SelectionAction(1)>>),
    CombinedAction(<<SelectionAction(2), FallibleAction(1)>>) }

TypeOK ==
  /\ world \in SUBSET Entities
  /\ current \in 0..(MaxLog + 1)
  /\ Len(history) <= MaxLog + 1
  /\ Len(messages) <= MaxQueue + 1
  /\ last.res \in ActionResult \cup {"None"}
  /\ rt.phase \in 0..3

\* ActionHistory::default(), an empty queue, nothing selected
Init ==
  /\ world = {}
  /\ history = <<>>
  /\ current = 0
  /\ messages = <<>>
  /\ last = FirstCall
  /\ rt = RtIdle

\* the World, the store and the bookkeeping as one value
Now == [world |-> world, history |-> history, current |-> current,
        last |-> last, rt |-> rt]

\* the method a message calls
Method(msg) ==
  IF msg.type = "Push" THEN "push" ELSE IF msg.type = "Redo" THEN "redo" ELSE "undo"

\* the state after the method call out made in state st for msg
After(st, msg, out) ==
  [world |-> out.ctx.world, history |-> out.history, current |-> out.current,
   last |-> CallRecord(Method(msg), out.arg, out.res, out.ctx, st.history,
                       st.current, st.world, st.last),
   rt |-> RtNext(st.rt, msg.type, out)]

\* one message applied to the store in state st, with the outcomes orc
Step(st, msg, orc) ==
  After(st, msg, Dispatch(st.history, st.current, st.world, msg, orc))

\* a call of a method of the store with the outcomes orc
Call(msg, orc) ==
  \E st \in {Step(Now, msg, orc)} :
     /\ world' = st.world
     /\ history' = st.history
     /\ current' = st.current
     /\ last' = st.last
     /\ rt' = st.rt
     /\ UNCHANGED messages

\* action_history.push(action, world)
Push ==
  /\ current < MaxLog
  /\ \E a \in PushPool : \E orc \in Oracles(a) : Call(MsgPush(a), orc)

\* action_history.redo(world)
Redo == \E orc \in Oracles(Target(history, current, MsgRedo)) : Call(MsgRedo, orc)

\* action_history.undo(world)
Undo == \E orc \in Oracles(Target(history, current, MsgUndo)) : Call(MsgUndo, orc)

\* action_history.clear()
Clear ==
  LET out == HistoryClear(history, current)
  IN /\ history' = out.history
     /\ current' = out.current
     /\ last' = NoCall("clear", history, current, world, last)
     /\ rt' = RtIdle
     /\ UNCHANGED <<world, messages>>

Next == Push \/ Redo \/ Undo \/ Clear

Spec == Init /\ [][Next]_vars

\* the history specification without clear
NextPUR == Push \/ Redo \/ Undo

SpecPUR == Init /\ [][NextPUR]_vars

(* The action specification: one action applied once to a World, a leaf   *)
(* action possibly undone right after its redo                             *)

InitComb ==
  /\ world \in SUBSET Entities
  /\ history = <<>>
  /\ current = 0
  /\ messages = <<>>
  /\ last = FirstCall
  /\ rt = RtIdle

CombCall(op, a, r) ==
  /\ world' = r.ctx.world
  /\ last' = CallRecord(op, a, r.res, r.ctx, history, current, world, last)
  /\ UNCHANGED <<history, current, messages, rt>>

\* CombinedAction::redo on a World
CombRedo ==
  /\ last.op = "init"
  /\ \E a \in Composites : \E orc \in Oracles(a) :
       \E r \in {CombinedRedo(a.subs, Ctx(world), orc)} : CombCall("combined_redo", a, r)

\* CombinedAction::undo on a World
CombUndo ==
  /\ last.op = "init"
  /\ \E a \in Composites : \E orc \in Oracles(a) :
       \E r \in {CombinedUndo(a.subs, Ctx(world), orc)} : CombCall("combined_undo", a, r)

\* Action::redo of a leaf action on a World
LeafRedo ==
  /\ last.op = "init"
  /\ \E a \in Leaves : \E orc \in Oracles(a) :
       \E r \in {ActionRedo(a, Ctx(world), orc)} : CombCall("leaf_redo", a, r)

\* Action::undo of a leaf action on a World, or of the leaf action that was
\* just redone
LeafUndo ==
  /\ last.op \in {"init", "leaf_redo"}
  /\ \E a \in Leaves : \E orc \in Oracles(a) :
       /\ last.op = "leaf_redo" => a = last.arg /\ last.res = Success
       /\ \E r \in {ActionUndo(a, Ctx(world), orc)} : CombCall("leaf_undo", a, r)

NextComb == CombRedo \/ CombUndo \/ LeafRedo \/ LeafUndo

SpecComb == InitComb /\ [][NextComb]_vars

\* the methods the action specification calls
DirectOps == {"combined_redo", "combined_undo", "leaf_redo", "leaf_undo"}

\* the history driven by its methods, or one action called directly on the
\* World of a new session
NextDiag == (last.op \notin DirectOps /\ Next) \/ NextComb

SpecDiag == Init /\ [][NextDiag]_vars

(* The queue specification: producers write ActionMessages, the consumer  *)
(* drains them once per cycle                                              *)

\* query.iter() over the entities With<Selected>: each once, in some order
SelectedOrders(w) ==
  {s \in [1..Cardinality(w) -> w] : \A j, k \in 1..Cardinality(w) : s[j] = s[k] => j = k}

\* the message select_entity writes for a click on e, if it writes one:
\* nothing unless the button is Primary; with ShiftLeft a SelectionAction;
\* otherwise a CombinedAction of the selected entities followed by e
SelectEntity(e, primary, shift, order) ==
  IF ~primary THEN <<>>
  ELSE IF shift THEN <<MsgPush(SelectionAction(e))>>
  ELSE <<MsgPush(CombinedAction(
           [j \in 1..Len(order) |-> SelectionAction(order[j])] \o <<SelectionAction(e)>>))>>

\* the number of Push messages of a queue
RECURSIVE Pushes(_)
Pushes(q) ==
  IF q = <<>> THEN 0
  ELSE (IF Head(q).type = "Push" THEN 1 ELSE 0) + Pushes(Tail(q))

\* there is room for one more message (and for the entry it may push)
Room(isPush) ==
  /\ Len(messages) < MaxQueue
  /\ isPush => Len(history) + Pushes(messages) < MaxQueueLog

\* a select_entity that toggles the clicked entity itself, at once
ClickEager ==
  \E e \in Entities : \E primary \in BOOLEAN : \E shift \in BOOLEAN :
    \E order \in SelectedOrders(world) :
      /\ Room(primary)
      /\ messages' = messages \o SelectEntity(e, primary, shift, order)
      /\ world' = IF primary THEN Toggle(world, e) ELSE world
      /\ UNCHANGED <<history, current, last, rt>>

\* select_entity, run by a Pointer<Click>
Click ==
  \E e \in Entities : \E primary \in BOOLEAN : \E shift \in BOOLEAN :
    \E order \in SelectedOrders(world) :
      /\ Room(primary)
      /\ messages' = messages \o SelectEntity(e, primary, shift, order)
      /\ UNCHANGED <<world, history, current, last, rt>>

\* the actions other producers push in the queue specification
SendPool == {FallibleAction(2)}

\* MessageWriter::write by any other producer
Send ==
  \E msg \in {MsgRedo, MsgUndo} \cup {MsgPush(a) : a \in SendPool} :
    /\ Room(msg.type = "Push")
    /\ messages' = Append(messages, msg)
    /\ UNCHANGED <<world, history, current, last, rt>>

\* the outcomes of the calls of each message of one drain (the actions of
\* the queue specification make at most one fallible call each)
DrainOracles(q) == [1..Len(q) -> SUBSET {1}]

\* what the drain has done so far: the state and, per processed message,
\* the method called, the position of the message and the outcome
NoneDone(st) == [st |-> st, done |-> <<>>, diags |-> <<>>]

\* the body of the loop for the k-th message: one match arm, one call
Processed(acc, msg, k, orc) ==
  LET st == Step(acc.st, msg, orc)
  IN  [st    |-> st,
       done  |-> Append(acc.done, [dir |-> st.last.op, idx |-> k - 1, res |-> st.last.res]),
       diags |-> acc.diags \o st.last.diags]

\* for message in messages.drain(): the messages from the k-th on, in order
RECURSIVE ConsumeFrom(_, _, _, _)
ConsumeFrom(acc, q, k, orcs) ==
  IF k > Len(q) THEN acc
  ELSE ConsumeFrom(Processed(acc, q[k], k, orcs[k]), q, k + 1, orcs)

\* a drain that starts at the second message
DrainAllButFirst(st, q, orcs) == ConsumeFrom(NoneDone(st), q, 2, orcs)

\* a drain that takes the messages last to first
DrainAllReversed(st, q, orcs) ==
  ConsumeFrom(NoneDone(st), Rev(q), 1, [k \in 1..Len(q) |-> orcs[Len(q) + 1 - k]])

\* messages.drain(), run to its end
DrainAll(st, q, orcs) == ConsumeFrom(NoneDone(st), q, 1, orcs)

\* consume_actions_messages: the whole drain is one step of an exclusive
\* system, and the drained queue is what resource_scope puts back
Consume ==
  \E orcs \in DrainOracles(messages) :
    \E acc \in {DrainAll(Now, messages, orcs)} :
      /\ world' = acc.st.world
      /\ history' = acc.st.history
      /\ current' = acc.st.current
      /\ last' = [op |-> "drain", arg |-> NoAction, res |-> "None",
                  calls |-> acc.done, diags |-> acc.diags,
                  from |-> [current |-> current, len |-> Len(history), world |-> world],
                  prev |-> [op |-> last.op, res |-> last.res]]
      /\ messages' = <<>>
      /\ UNCHANGED rt

NextQueue == Click \/ Send \/ Consume

SpecQueue == Init /\ [][NextQueue]_vars

-----------------------------------------------------------------------------
(* Properties *)

\* the World after the redo of h[1..c] in order, every call succeeding
RECURSIVE ReplayFrom(_, _, _, _)
ReplayFrom(w, h, k, c) ==
  IF k > c THEN w
  ELSE ReplayFrom(ActionRedo(h[k], Ctx(w), {}).ctx.world, h, k + 1, c)

Replay(h, c) == ReplayFrom({}, h, 1, c)

\* the positions of the calls of one direction that failed
FailedAt(calls, dir) ==
  {p \in 1..Len(calls) : calls[p].dir = dir /\ calls[p].res = Failed}

Minimum(S) == CHOOSE x \in S : \A y \in S : x <= y

\* the number of calls of one direction on sub-action i
CountCalls(calls, dir, i) ==
  Cardinality({p \in 1..Len(calls) : calls[p].dir = dir /\ calls[p].idx = i})

\* C1: linear history invariant: in every state reachable by push, undo, redo
\* and clear, whatever the calls return, 0 <= cursor <= len(log).
C1_LinearHistory == 0 <= current /\ current <= Len(history)

\* an undo has moved the cursor strictly inside a history of two entries
C1_Witness ==
  /\ last.op = "undo" /\ last.res = Success
  /\ 0 < current /\ current < Len(history)

\* C2: branch truncation: a push that succeeds in a state with log L and
\* cursor c leaves log = L[0..c] followed by the pushed action and
\* cursor = c + 1 = len(log), and a redo made right after it is a no-op.
C2_BranchTruncation ==
  [][ /\ (last'.op = "push" /\ last'.res = Success) =>
           /\ history' = Append(SubSeq(history, 1, current), last'.arg)
           /\ current' = current + 1
           /\ current' = Len(history')
      /\ (last.op = "push" /\ last.res = Success /\ last'.op = "redo") =>
           /\ last'.res = "None" /\ last'.calls = <<>>
           /\ UNCHANGED <<world, history, current>>
    ]_vars

\* a redo that did nothing right after a push
C2_RedoAfterPush ==
  /\ last.op = "redo" /\ last.res = "None"
  /\ last.prev.op = "push" /\ last.prev.res = Success
  /\ Len(history) = MaxLog /\ current = Len(history)

\* a successful push made with entries at and after the cursor
C2_Witness ==
  /\ last.op = "push" /\ last.res = Success
  /\ last.from.current > 0 /\ last.from.len > last.from.current
  /\ Len(history) = last.from.current + 1

\* C3: reflection invariant: the World is the initial World with exactly
\* log[0..cursor] applied forward in log order.
C3_Reflection == world = Replay(history, current)

\* C4: composite partial failure, forward: when the first failing redo is
\* that of sub-action i and the sub-actions before i are SelectionActions
\* (their undo succeeds and inverts their redo), CombinedAction::redo returns
\* Failed and leaves the World as it found it; for [A, B] with B failing, the
\* undo of A is called exactly once.
C4_ForwardRestores ==
  [][ (last'.op = "combined_redo" /\ FailedAt(last'.calls, "redo") # {}) =>
        LET c == last'.calls
            i == c[Minimum(FailedAt(c, "redo"))].idx
            subs == last'.arg.subs
        IN (\A j \in 0..(i - 1) : subs[j + 1].kind = "sel") =>
              /\ last'.res = Failed
              /\ world' = world
              /\ (Len(subs) = 2 /\ i = 1) => CountCalls(c, "undo", 0) = 1
    ]_vars

\* C5: composite partial failure, backward: CombinedAction::undo calls undo
\* on the sub-actions n-1 down to 0; when the first failure is at sub-action i
\* (the sub-actions after i being SelectionActions) it then calls redo once on
\* each of the sub-actions i+1 .. n-1 and on nothing else, returns Failed and
\* leaves the World as it found it.
C5_BackwardRestores ==
  [][ (last'.op = "combined_undo" /\ FailedAt(last'.calls, "undo") # {}) =>
        LET c == last'.calls
            p == Minimum(FailedAt(c, "undo"))
            i == c[p].idx
            n == Len(last'.arg.subs)
        IN (\A j \in (i + 1)..(n - 1) : last'.arg.subs[j + 1].kind = "sel") =>
              /\ \A q \in 1..p : c[q].dir = "undo" /\ c[q].idx = n - q
              /\ \A q \in (p + 1)..Len(c) : c[q].dir = "redo"
              /\ \A j \in 0..(n - 1) :
                   CountCalls(c, "redo", j) = IF j > i THEN 1 ELSE 0
              /\ last'.res = Failed
              /\ world' = world
    ]_vars

\* C6: a push whose redo returns Failed leaves the log (length and contents)
\* and the cursor as they were, the redo tail included.
C6_FailedPushKeepsHistory ==
  [][ (last'.op = "push" /\ last'.res = Failed) =>
        /\ history' = history
        /\ current' = current
    ]_vars

\* a failed push made while a redo tail exists, the tail still there
C6_Witness ==
  /\ last.op = "push" /\ last.res = Failed
  /\ last.from.len > last.from.current
  /\ Len(history) = last.from.len /\ current < Len(history)

\* C7: redo step: with cursor < len(log), redo applies log[cursor] forward;
\* on Success the cursor becomes cursor + 1, on Failed it is unchanged, and
\* the next redo attempts the same entry again.
C7_RedoStep ==
  [][ /\ (last'.op = "redo" /\ current < Len(history)) =>
           /\ last'.arg = history[current + 1]
           /\ \E orc \in Oracles(history[current + 1]) :
                LET r == ActionRedo(history[current + 1], Ctx(world), orc)
                IN /\ last'.calls = r.ctx.calls
                   /\ last'.res = r.res
                   /\ world' = r.ctx.world
           /\ last'.res = Success => current' = current + 1
           /\ last'.res = Failed => current' = current
           /\ history' = history
      /\ (last.op = "redo" /\ last.res = Failed /\ last'.op = "redo") =>
           /\ last'.arg = last.arg
           /\ last'.res \in ActionResult
    ]_vars

\* a redo that succeeds right after a redo of the same entry that failed
C7_Witness ==
  /\ last.op = "redo" /\ last.res = Success
  /\ last.prev.op = "redo" /\ last.prev.res = Failed
  /\ current = last.from.current + 1

\* C8: undo step: with cursor > 0, undo applies log[cursor-1] backward; on
\* Success the cursor becomes cursor - 1, on Failed it is unchanged and the
\* next undo attempts the same entry again.
C8_UndoStep ==
  [][ /\ (last'.op = "undo" /\ current > 0) =>
           /\ last'.arg = history[current]
           /\ \E orc \in Oracles(history[current]) :
                LET r == ActionUndo(history[current], Ctx(world), orc)
                IN /\ last'.calls = r.ctx.calls
                   /\ last'.res = r.res
                   /\ world' = r.ctx.world
           /\ last'.res = Success => current' = current - 1
           /\ last'.res = Failed => current' = current
           /\ history' = history
      /\ (last.op = "undo" /\ last.res = Failed /\ last'.op = "undo") =>
           /\ last'.arg = last.arg
           /\ last'.res \in ActionResult
    ]_vars

\* an undo that fails right after an undo of the same entry that failed
C8_Witness ==
  /\ last.op = "undo" /\ last.res = Failed
  /\ last.prev.op = "undo" /\ last.prev.res = Failed
  /\ current = last.from.current /\ current > 0

\* C9: no-op boundaries: undo with cursor = 0 and redo with cursor = len(log)
\* apply no action, emit nothing and leave the World, the log and the cursor
\* unchanged.
C9_NoOpBoundaries ==
  [][ (\/ last'.op = "undo" /\ current = 0
       \/ last'.op = "redo" /\ current = Len(history)) =>
        /\ last'.res = "None" /\ last'.arg = NoAction
        /\ last'.calls = <<>> /\ last'.diags = <<>>
        /\ UNCHANGED <<world, history, current>>
    ]_vars

\* an undo that did nothing on a non-empty log with the cursor at 0
C9_Witness ==
  /\ last.op = "undo" /\ last.res = "None"
  /\ Len(history) > 0 /\ current = 0 /\ last.from.current = 0

\* C10: undo/redo round trip: after push(a); undo(); redo() with a made of
\* SelectionActions, the World, the log and the cursor are what they were
\* right after the push.
C10_RoundTrip ==
  rt.phase = 3 => /\ world = rt.world
                  /\ history = rt.history
                  /\ current = rt.current

\* the round trip of a CombinedAction has completed on a selected World
C10_Witness ==
  /\ rt.phase = 3 /\ last.op = "redo" /\ last.res = Success
  /\ last.arg.kind = "combined" /\ world # {}

\* C11: self-inverse toggle: for every entity and every selected set, the
\* redo (and the undo) of a SelectionAction returns Success, flips Selected
\* on its entity and on no other; its undo right after its redo restores the
\* selected set.
C11_SelfInverseToggle ==
  [][ (last'.op \in {"leaf_redo", "leaf_undo"} /\ last'.arg.kind = "sel") =>
        LET e == last'.arg.ent
        IN /\ last'.res = Success
           /\ (e \in world') # (e \in world)
           /\ \A x \in Entities \ {e} : (x \in world') = (x \in world)
           /\ (last'.op = "leaf_undo" /\ last.op = "leaf_redo") =>
                 world' = last.from.world
    ]_vars

\* a SelectionAction undone right after its redo, another entity selected
C11_Witness ==
  /\ last.op = "leaf_undo" /\ last.prev.op = "leaf_redo"
  /\ last.arg.kind = "sel" /\ last.res = Success
  /\ last.arg.ent \notin world /\ world # {}

\* C12: composite happy path: when the redo of every sub-action succeeds,
\* CombinedAction::redo returns Success, has called the redo of each
\* sub-action once in index order and no undo, and leaves the World that
\* applying the sub-actions one by one in that order leaves.
C12_HappyPath ==
  [][ (last'.op = "combined_redo" /\ FailedAt(last'.calls, "redo") = {}) =>
        LET c == last'.calls
            subs == last'.arg.subs
        IN /\ last'.res = Success
           /\ Len(c) = Len(subs)
           /\ \A q \in 1..Len(c) :
                c[q] = [dir |-> "redo", idx |-> q - 1, res |-> Success]
           /\ last'.diags = <<>>
           /\ world' = ReplayFrom(world, subs, 1, Len(subs))
    ]_vars

\* a CombinedAction of three sub-actions, one of them fallible, has succeeded
C12_Witness ==
  /\ last.op = "combined_redo" /\ last.res = Success
  /\ Len(last.arg.subs) >= 3 /\ ~AllSel(last.arg)
  /\ world # last.from.world

\* C13: clear empties the log, sets the cursor to 0 and leaves the World
\* alone; on the empty log undo and redo do nothing, and the log stays empty
\* (no entry of before the clear comes back) until a push.
C13_Clear ==
  [][ /\ last'.op = "clear" =>
           /\ history' = <<>> /\ current' = 0
           /\ world' = world
           /\ last'.calls = <<>> /\ last'.diags = <<>>
      /\ (history = <<>> /\ last'.op \in {"undo", "redo"}) =>
           /\ last'.res = "None" /\ last'.calls = <<>>
           /\ UNCHANGED <<world, history, current>>
      /\ (history = <<>> /\ last'.op # "push") => history' = <<>>
    ]_vars

\* a redo that did nothing right after the clear of a log of two entries,
\* the World still showing what the cleared entries did
C13_Witness ==
  /\ last.op = "redo" /\ last.res = "None"
  /\ last.prev.op = "clear"
  /\ history = <<>> /\ current = 0 /\ world # {}

\* a clear of a non-empty log with the cursor inside it
C13_ClearReached ==
  /\ last.op = "clear" /\ last.from.len >= 2 /\ last.from.current >= 1
  /\ history = <<>> /\ current = 0 /\ world = last.from.world /\ world # {}

\* the calls the messages of q stand for, made directly on the history one
\* after the other from the first message to the last
RECURSIVE DirectCalls(_, _, _, _, _)
DirectCalls(w, h, c, q, orcs) ==
  IF q = <<>> THEN [world |-> w, history |-> h, current |-> c]
  ELSE LET m == Head(q)
           r == IF m.type = "Push" THEN HistoryPush(h, c, m.action, Ctx(w), Head(orcs))
                ELSE IF m.type = "Redo" THEN HistoryRedo(h, c, Ctx(w), Head(orcs))
                ELSE HistoryUndo(h, c, Ctx(w), Head(orcs))
       IN  DirectCalls(r.ctx.world, r.history, r.current, Tail(q), Tail(orcs))

\* the step is a drain: Consume is the only action that writes a drain
\* record, and the only one that takes messages out of the queue
Drained == last'.op = "drain" /\ (last' # last \/ Len(messages') < Len(messages))

\* C14: FIFO drain: one drain leaves the World, the log and the cursor that
\* the direct invocation of every queued message's method, one at a time in
\* the order the messages were enqueued, leaves (for some outcomes of the
\* fallible calls), and it has called the methods in that order.
C14_FifoDrain ==
  [][ Drained =>
        /\ \E orcs \in DrainOracles(messages) :
             DirectCalls(world, history, current, messages, orcs)
               = [world |-> world', history |-> history', current |-> current']
        /\ Len(last'.calls) = Len(messages)
        /\ \A k \in 1..Len(messages) : last'.calls[k].dir = Method(messages[k])
    ]_vars

\* a drain of a push followed by an undo, both done: taken in the other
\* order the undo would have found nothing to undo
C14_Witness ==
  /\ last.op = "drain" /\ Len(last.calls) = 2
  /\ last.calls[1] = [dir |-> "push", idx |-> 0, res |-> Success]
  /\ last.calls[2] = [dir |-> "undo", idx |-> 1, res |-> Success]
  /\ last.from.len = 0 /\ Len(history) = 1 /\ current = 0

\* C15: exhaustive drain, exactly once: a drain processes every message
\* that was queued when it began, each one once, and leaves the queue empty;
\* outside a drain no queued message leaves the queue.
C15_ExhaustiveDrain ==
  [][ /\ Drained =>
           /\ messages' = <<>>
           /\ Len(last'.calls) = Len(messages)
           /\ \A k \in 1..Len(messages) :
                /\ last'.calls[k].idx = k - 1
                /\ last'.calls[k].dir = Method(messages[k])
      /\ ~Drained =>
           /\ Len(messages') >= Len(messages)
           /\ SubSeq(messages', 1, Len(messages)) = messages
    ]_vars

\* the second of two drains in a row that had two messages to process has
\* processed them and only them
C15_Witness ==
  /\ last.op = "drain" /\ last.prev.op = "drain"
  /\ Len(last.calls) = 2 /\ last.calls[1].res # "None"
  /\ messages = <<>>

\* the positions of the calls that returned Failed, whatever the direction
Failures(calls) == {p \in 1..Len(calls) : calls[p].res = Failed}

\* the number of diagnostics of d that are in the set D
CountDiags(d, D) == Cardinality({p \in 1..Len(d) : d[p] \in D})

\* the diagnostic of the history method op
WarnOf(op) == IF op = "push" THEN WarnPush ELSE IF op = "redo" THEN WarnRedo ELSE WarnUndo

\* C17: diagnostics: a push, redo or undo whose action returned Failed has
\* emitted its own diagnostic; one that succeeded or did nothing has emitted
\* none; a CombinedAction that returned Failed has emitted, after the
\* diagnostic of the failure, exactly one diagnostic about the unwind:
\* "Failed to unwind" when a compensating call returned Failed,
\* "Successfully unwound" otherwise.
C17_Diagnostics ==
  /\ (last.op \in {"push", "redo", "undo"} /\ last.res = Failed) =>
        /\ last.diags # <<>>
        /\ last.diags[Len(last.diags)] = WarnOf(last.op)
  /\ (last.op \in {"push", "redo", "undo"} /\ last.res \in {Success, "None"}) =>
        last.diags = <<>>
  /\ (last.op \in DirectOps /\ last.res = Success) => last.diags = <<>>
  /\ (last.arg.kind = "combined" /\ last.res = Failed) =>
        /\ Len(last.diags) >= 2
        /\ last.diags[1] \in {WarnCombinedRedo, WarnCombinedUndo}
        /\ CountDiags(last.diags, {WarnUnwound, WarnUnwindFailed}) = 1
        /\ last.diags[2] = IF Cardinality(Failures(last.calls)) >= 2
                             THEN WarnUnwindFailed ELSE WarnUnwound

\* a CombinedAction::redo whose unwind made a compensating call that failed
C17_Witness ==
  /\ last.op = "combined_redo" /\ last.res = Failed
  /\ last.diags = <<WarnCombinedRedo, WarnUnwindFailed>>
  /\ Cardinality(Failures(last.calls)) = 2

\* a push of a CombinedAction that failed and unwound: three diagnostics
C17_FailedPush ==
  /\ last.op = "push" /\ last.res = Failed
  /\ last.diags = <<WarnCombinedRedo, WarnUnwound, WarnPush>>

\* C18: composite forward call sequence: when the first failed redo of
\* CombinedAction::redo is on sub-action i (the sub-actions before i being
\* SelectionActions, whose undo cannot fail), redo has been called on the
\* sub-actions 0 .. i in order and on none after i, and undo is then called
\* once on each of the sub-actions i-1 down to 0, in that order, and on no
\* other.
C18_ForwardCallSequence ==
  [][ (last'.op = "combined_redo" /\ FailedAt(last'.calls, "redo") # {}) =>
        LET c == last'.calls
            p == Minimum(FailedAt(c, "redo"))
            i == c[p].idx
            subs == last'.arg.subs
        IN (\A j \in 0..(i - 1) : subs[j + 1].kind = "sel") =>
              /\ p = i + 1
              /\ \A q \in 1..p : c[q].dir = "redo" /\ c[q].idx = q - 1
              /\ Len(c) = p + i
              /\ \A q \in 1..i : c[p + q].dir = "undo" /\ c[p + q].idx = i - q
    ]_vars

\* C19: at most once per direction: in one call of CombinedAction::redo or
\* CombinedAction::undo no sub-action has its redo called more than once and
\* none has its undo called more than once.
C19_AtMostOncePerDirection ==
  (last.op \in {"combined_redo", "combined_undo"}) =>
     \A j \in 0..(Len(last.arg.subs) - 1) :
        /\ CountCalls(last.calls, "redo", j) <= 1
        /\ CountCalls(last.calls, "undo", j) <= 1

\* C20: rollback stops on rollback failure: in the unwind of a
\* CombinedAction::redo or CombinedAction::undo, the first compensating call
\* that returns Failed is the last call made, the CombinedAction returns
\* Failed, and "Failed to unwind" is emitted, not "Successfully unwound".
C20_RollbackStops ==
  (last.op \in {"combined_redo", "combined_undo"}
     /\ Cardinality(Failures(last.calls)) >= 2) =>
        LET first == Minimum(Failures(last.calls))
        IN /\ \A q \in Failures(last.calls) \ {first} : q = Len(last.calls)
           /\ last.res = Failed
           /\ CountDiags(last.diags, {WarnUnwindFailed}) = 1
           /\ CountDiags(last.diags, {WarnUnwound}) = 0
           /\ last.diags[Len(last.diags)] = WarnUnwindFailed

\* the redo of sub-action 3 failed, the unwind order is 1, 0, and the undo
\* of sub-action 1 failed: sub-action 0 is not called
C20_Witness ==
  /\ last.op = "combined_redo" /\ Len(last.arg.subs) = 4
  /\ Len(last.calls) = 5
  /\ last.calls[4] = [dir |-> "redo", idx |-> 3, res |-> Failed]
  /\ last.calls[5] = [dir |-> "undo", idx |-> 1, res |-> Failed]
  /\ last.res = Failed

\* the same in CombinedAction::undo: the undo of sub-action 3 failed, the
\* unwind order is 2, 3, and the compensating call on sub-action 2 failed
C20_WitnessUndo ==
  /\ last.op = "combined_undo" /\ Len(last.arg.subs) = 4
  /\ last.calls = << [dir |-> "undo", idx |-> 3, res |-> Failed],
                     [dir |-> "undo", idx |-> 2, res |-> Failed] >>
  /\ last.res = Failed

\* C21: enqueue is deferred: a step that is not a drain (a click, a write
\* by another producer) leaves the World, the log and the cursor as they
\* are and only appends to the queue; the World, the log and the cursor
\* change in drain steps only.
C21_EnqueueDeferred ==
  [][ /\ ~Drained => UNCHANGED <<world, history, current>>
      /\ messages' # messages =>
           \/ Drained
           \/ /\ Len(messages') = Len(messages) + 1
              /\ SubSeq(messages', 1, Len(messages)) = messages
              /\ UNCHANGED <<world, history, current, last>>
    ]_vars

\* after a drain that selected something, a click's Push and another message
\* are waiting: the log still has the one entry of before
C21_Witness ==
  /\ last.op = "drain" /\ world # {} /\ Len(history) = 1 /\ current = 1
  /\ Len(messages) = 2
  /\ messages[1].type = "Push" /\ messages[1].action.kind = "combined"
  /\ messages[2].type = "Undo"

\* the message is the Push select_entity writes for a click without Shift
\* (no other producer of the queue specification pushes a CombinedAction)
PlainClick(msg) == msg.type = "Push" /\ msg.action.kind = "combined"

\* the entity of that click: the last sub-action of the CombinedAction
ClickedEntity(msg) == msg.action.subs[Len(msg.action.subs)].ent

\* C22: exclusive selection on plain click: after a drain whose last message
\* is the Push of a primary click without Shift on entity e, the selected
\* set is exactly {e}, whatever was selected and whatever else was queued in
\* the same cycle.
C22_ExclusiveSelection ==
  [][ (Drained /\ messages # <<>> /\ PlainClick(messages[Len(messages)])) =>
        world' = {ClickedEntity(messages[Len(messages)])}
    ]_vars

\* the same for a drain of that one message only
C22_SingleClick ==
  [][ (Drained /\ Len(messages) = 1 /\ PlainClick(messages[1])) =>
        world' = {ClickedEntity(messages[1])}
    ]_vars

\* C23: discarded operations are dead: a successful push leaves the log
\* with the entries before the cursor and the pushed action, so no entry of
\* the discarded tail is in the log after it; undo and redo apply an entry
\* of the log and nothing else; and an entry comes into the log through a
\* push only.  Hence an entry of a discarded tail is never applied again.
C23_DiscardedDead ==
  [][ /\ (last'.op = "push" /\ last'.res = Success) =>
           /\ history' = SubSeq(history, 1, current) \o <<last'.arg>>
           /\ current' = Len(history')
      /\ (last'.op \in {"undo", "redo"} /\ last'.res # "None") =>
           /\ \E k \in 1..Len(history) :
                /\ last'.arg = history[k]
                /\ k = IF last'.op = "redo" THEN current + 1 ELSE current
           /\ history' = history
      /\ (last'.op \in {"undo", "redo"} /\ last'.res = "None") =>
           last'.calls = <<>> /\ world' = world
      /\ \A k \in 1..Len(history') :
           \/ k <= Len(history) /\ history'[k] = history[k]
           \/ /\ last'.op = "push" /\ last'.res = Success
              /\ k = Len(history') /\ history'[k] = last'.arg
    ]_vars

\* a push made with the cursor at 0 has discarded a tail of two entries:
\* the log is the pushed action alone
C23_Witness ==
  /\ last.op = "push" /\ last.res = Success
  /\ last.from.len = 2 /\ last.from.current = 0
  /\ history = <<last.arg>> /\ current = 1

\* a redo right after a push that succeeded finds nothing to apply
C23_NothingToRedo ==
  /\ last.op = "redo" /\ last.res = "None"
  /\ last.prev.op = "push" /\ last.prev.res = Success
  /\ last.from.len = 1 /\ last.from.current = 1

\* C24: undo and redo never change the log: whatever the action returns,
\* undo and redo leave the log as it is and move the cursor by at most one
\* (redo up, undo down, and not at all on Failed); the log changes only in
\* a push that succeeds and in a clear.
C24_UndoRedoKeepLog ==
  [][ /\ last'.op \in {"undo", "redo"} =>
           /\ history' = history
           /\ current' - current \in {-1, 0, 1}
           /\ last'.op = "redo" => current' >= current
           /\ last'.op = "undo" => current' <= current
           /\ last'.res # Success => current' = current
      /\ history' # history =>
           \/ last'.op = "push" /\ last'.res = Success
           \/ last'.op = "clear"
    ]_vars

\* a redo that failed on the second entry of a log of two
C24_Witness ==
  /\ last.op = "redo" /\ last.res = Failed
  /\ Len(history) = 2 /\ current = 1 /\ last.from.len = 2

\* an undo that succeeded on a log of two entries: both are still there
C24_UndoKept ==
  /\ last.op = "undo" /\ last.res = Success
  /\ Len(history) = 2 /\ last.from.len = 2 /\ current = last.from.current - 1

====
